---- MODULE Spec2Model ----
(***************************************************************************)
(* Model of the Sudoku generator (utils/sudokuGenerator.ts): the complete- *)
(* grid synthesizer generateSudoku and the balanced cell remover           *)
(* createPuzzle.  Arrays are 0-indexed functions as in the source; the     *)
(* lists the source sorts, shuffles or splices are sequences.              *)
(* Math.random() is a nondeterministic draw: floor(Math.random() * k) is a *)
(* value of 0..k-1.  To keep the larger grids finite the random source is  *)
(* bounded: of the draws of one run (one attempt of generateSudoku, one    *)
(* call of createPuzzle) at most `budget` are different from 0.            *)
(***************************************************************************)
EXTENDS Integers, Sequences, FiniteSets, TLC

VARIABLES
    size,               \* the size argument of generateSudoku / createPuzzle
    difficulty,         \* the difficulty argument of createPuzzle
    pc,                 \* position of the running call
    budget,             \* draws of the current run that may still be non-zero
    digitsCache,        \* module-level Map<number, number[]>
    grid,               \* generateSudoku's grid; createPuzzle's input grid
    attempt,            \* loop variable of generateSudoku
    boxRow,             \* loop variable of fillDiagonalBoxes
    stack,              \* active solveSudoku frames, innermost last
    genOutcome,         \* how generateSudoku ended
    seed,               \* the grid as fillDiagonalBoxes left it in this attempt
    rs,                 \* createPuzzle's removal state: puzzle, removedCells, counters, coverage sets
    unit,               \* loop variable of the coverage phase (row, col, boxIdx)
    quota,              \* step 4's locals: positionsByColumn, columnOrder, cellsToRemoveNow, ...
    cpOutcome,          \* how createPuzzle ended
    solution,           \* the complete grid as the caller of createPuzzle obtained it
    replay,             \* "off", or the random source is recorded ("record") or played back ("play")
    tape,               \* the recorded draws not yet played back, oldest first
    first,              \* what the recorded run returned
    app                 \* the App component: isGenerating, pending timers, the running handler's locals

genLocals == <<attempt, boxRow, stack, genOutcome, seed, solution>>
genVars == <<grid, genLocals>>
cpVars == <<rs, unit, quota, cpOutcome>>
rndVars == <<replay, tape, first>>
vars == <<size, difficulty, pc, budget, digitsCache, genVars, cpVars, rndVars, app>>

----------------------------------------------------------------------------
(* Bounds of the model *)

\* non-zero draws allowed per attempt of generateSudoku, by grid size
GenDraws4 == 16
GenDraws6 == 1
GenDraws9 == 0
\* non-zero draws allowed in a recorded run of generateSudoku and createPuzzle
ReplayDraws4 == 2
ReplayDraws6 == 1
ReplayDraws9 == 0
\* non-zero draws allowed per call of createPuzzle, by grid size
PickDraws4 == 12
PickDraws6 == 16
PickDraws9 == 1

\* inside a tick of the App component: non-zero draws allowed per attempt of
\* generateSudoku, by grid size, and per call of createPuzzle
TickDraws4 == 1
TickDraws6 == 0
TickDraws9 == 0
TickPicks == 1
\* invocations of handleGenerate in one behaviour
MaxClicks == 2

(* Program constants *)
VALID_SIZES == {4, 6, 9}
maxAttempts == 5

\* the sizes a caller passes: the supported ones and the unsupported 5
InputSizes == VALID_SIZES \cup {5}
Difficulties == {"easy", "medium", "hard", "extremely hard"}

----------------------------------------------------------------------------
(* Pure helpers *)

Idx(n) == 0 .. (n - 1)

\* a range test in place of the membership test
isValidSizeRange(n) == \E validSize \in VALID_SIZES : validSize <= n

isValidSize(n) == \E validSize \in VALID_SIZES : validSize = n

UnsupportedSize == [rows |-> 0, cols |-> 0]

\* box dimensions with rows and columns exchanged for the 6 x 6 grid
getBoxDimensionsSwapped(n) ==
    CASE n = 9 -> [rows |-> 3, cols |-> 3]
      [] n = 6 -> [rows |-> 3, cols |-> 2]
      [] n = 4 -> [rows |-> 2, cols |-> 2]
      [] OTHER -> UnsupportedSize

getBoxDimensions(n) ==
    CASE n = 9 -> [rows |-> 3, cols |-> 3]
      [] n = 6 -> [rows |-> 2, cols |-> 3]
      [] n = 4 -> [rows |-> 2, cols |-> 2]
      [] OTHER -> UnsupportedSize

\* Array.from({ length: size }, (_, i) => i + 1)
NewDigits(n) == [i \in 1 .. n |-> i]

\* getDigits: the cached array when present, else the fresh one it caches
getDigits(cache, n) == IF n \in DOMAIN cache THEN cache[n] ELSE NewDigits(n)

CacheAfterGetDigits(cache, n) ==
    IF n \in DOMAIN cache THEN cache ELSE cache @@ (n :> NewDigits(n))

NoGrid == [r \in {} |-> 0]
ZeroGrid(n) == [r \in Idx(n) |-> [c \in Idx(n) |-> 0]]

Swap(arr, a, b) == [arr EXCEPT ![a] = arr[b], ![b] = arr[a]]

\* shuffleArray on a copy of `array`; ds[i] is floor(Math.random() * (i + 1))
\* of the iteration with loop variable i (sequence positions are 1-based)
RECURSIVE shuffleFrom(_, _, _)
shuffleFrom(arr, ds, i) ==
    IF i < 1 THEN arr ELSE shuffleFrom(Swap(arr, i + 1, ds[i] + 1), ds, i - 1)

shuffleArray(array, ds) == shuffleFrom(array, ds, Len(array) - 1)

\* the draw sequences of a shuffle of m + 1 elements with at most b non-zero draws
RECURSIVE DrawSeqs(_, _)
DrawSeqs(m, b) ==
    IF m <= 0 THEN {<< >>}
    ELSE {Append(s, 0) : s \in DrawSeqs(m - 1, b)}
         \cup (IF b > 0
               THEN UNION {{Append(s, j) : j \in 1 .. m} : s \in DrawSeqs(m - 1, b - 1)}
               ELSE {})

NonZero(ds) == Cardinality({i \in DOMAIN ds : ds[i] # 0})

NoFirst == [genOutcome |-> "none"]

\* outside the App component there is no component state
NoApp == [isGenerating |-> FALSE]

\* the random source.  A shuffle of m + 1 elements draws for i = m, m-1, .., 1,
\* the tape holds the draws in that order; a tape that has run out yields 0
TapeDraws(t, m) == [i \in 1 .. m |-> IF m - i + 1 <= Len(t) THEN t[m - i + 1] ELSE 0]
ShuffleDraws(m) ==
    IF replay = "play" THEN {TapeDraws(tape, m)} ELSE DrawSeqs(m, budget)
PickDraw(k) ==
    IF replay = "play" THEN {IF tape # << >> /\ Head(tape) < k THEN Head(tape) ELSE 0}
    ELSE IF budget > 0 THEN 0 .. (k - 1) ELSE {0}
TapeAfter(drawn) ==
    CASE replay = "record" -> tape \o drawn
      [] replay = "play" -> SubSeq(tape, Len(drawn) + 1, Len(tape))
      [] OTHER -> tape
InOrder(ds) == [k \in 1 .. Len(ds) |-> ds[Len(ds) - k + 1]]

\* a shuffle in place
arrayAfterShuffleInPlace(array, shuffled) == shuffled

\* shuffleArray works on `const arr = [...array]`: the array passed in stays as it is
arrayAfterShuffle(array, shuffled) == array

\* isValid without its box loop
isValidNoBox(g, row, col, num, n) ==
    /\ \A j \in Idx(n) : g[row][j] # num
    /\ \A i \in Idx(n) : g[i][col] # num

isValid(g, row, col, num, n) ==
    LET boxDims == getBoxDimensions(n)
        startRow == (row \div boxDims.rows) * boxDims.rows
        startCol == (col \div boxDims.cols) * boxDims.cols
    IN  /\ \A j \in Idx(n) : g[row][j] # num
        /\ \A i \in Idx(n) : g[i][col] # num
        /\ \A i \in startRow .. (startRow + boxDims.rows - 1) :
               \A j \in startCol .. (startCol + boxDims.cols - 1) : g[i][j] # num

\* getCandidates without the isValid test
getCandidatesUnchecked(g, row, col, n, digits) == digits

\* getCandidates that stops at the first valid digit
getCandidatesFirstOnly(g, row, col, n, digits) ==
    LET all == SelectSeq(digits, LAMBDA num : isValid(g, row, col, num, n))
    IN  IF all = << >> THEN all ELSE <<Head(all)>>

getCandidates(g, row, col, n, digits) ==
    SelectSeq(digits, LAMBDA num : isValid(g, row, col, num, n))

NoCell == [row |-> -1, col |-> -1, candidates |-> << >>]

\* one iteration of findBestCell's double loop, at cell k in row-major order;
\* acc is the best cell so far and whether the function has returned.  The
\* candidates of the result are in getCandidates order (the caller shuffles)
scanCell(g, n, digits, k, acc) ==
    LET row == k \div n
        col == k % n
        candidates == getCandidates(g, row, col, n, digits)
        cell == [row |-> row, col |-> col, candidates |-> candidates]
    IN  IF acc.done \/ g[row][col] # 0 THEN acc
        ELSE IF Len(candidates) = 0 THEN [bestCell |-> cell, done |-> TRUE]
        ELSE IF acc.bestCell = NoCell \/ Len(candidates) < Len(acc.bestCell.candidates)
             THEN [bestCell |-> cell, done |-> Len(candidates) = 1]
        ELSE acc

\* the iterations lo..hi in order (split in halves to keep the evaluation shallow)
RECURSIVE scanCells(_, _, _, _, _, _)
scanCells(g, n, digits, lo, hi, acc) ==
    IF acc.done THEN acc
    ELSE IF lo = hi THEN scanCell(g, n, digits, lo, acc)
    ELSE LET mid == (lo + hi) \div 2
         IN  scanCells(g, n, digits, mid + 1, hi, scanCells(g, n, digits, lo, mid, acc))

\* findBestCell whose scan stops after the first row
findBestCellFirstRow(g, n, digits) ==
    scanCells(g, n, digits, 0, n - 1, [bestCell |-> NoCell, done |-> FALSE]).bestCell

findBestCell(g, n, digits) ==
    scanCells(g, n, digits, 0, n * n - 1, [bestCell |-> NoCell, done |-> FALSE]).bestCell

\* fillBox with the box's row count as the stride of numIndex
fillBoxRowStride(g, row, col, boxDims, numbers) ==
    [r \in DOMAIN g |->
        [c \in DOMAIN g[r] |->
            IF /\ r \in row .. (row + boxDims.rows - 1)
               /\ c \in col .. (col + boxDims.cols - 1)
            THEN numbers[(r - row) * boxDims.rows + (c - col) + 1]
            ELSE g[r][c]]]

\* fillBox: numbers[numIndex++] written row by row into the box at (row, col)
fillBox(g, row, col, boxDims, numbers) ==
    [r \in DOMAIN g |->
        [c \in DOMAIN g[r] |->
            IF /\ r \in row .. (row + boxDims.rows - 1)
               /\ c \in col .. (col + boxDims.cols - 1)
            THEN numbers[(r - row) * boxDims.cols + (c - col) + 1]
            ELSE g[r][c]]]

TickDraws(n) == CASE n = 4 -> TickDraws4 [] n = 6 -> TickDraws6 [] OTHER -> TickDraws9
GenDraws(n) ==
    IF app # NoApp THEN TickDraws(n)
    ELSE CASE n = 4 -> GenDraws4 [] n = 6 -> GenDraws6 [] OTHER -> GenDraws9
ReplayDraws(n) == CASE n = 4 -> ReplayDraws4 [] n = 6 -> ReplayDraws6 [] OTHER -> ReplayDraws9

----------------------------------------------------------------------------
(* generateSudoku *)

\* generateSudoku(size): assertValidSize, then allocation of the zero grid
GenerateSudoku ==
    /\ pc = "idle"
    /\ IF ~isValidSize(size)
       THEN /\ genOutcome' = "unsupported"
            /\ pc' = "gen_done"
            /\ UNCHANGED <<grid, digitsCache>>
       ELSE /\ grid' = ZeroGrid(size)
            /\ digitsCache' = CacheAfterGetDigits(digitsCache, size)
            /\ pc' = "attempt"
            /\ UNCHANGED genOutcome
    /\ attempt' = 0
    /\ UNCHANGED <<size, difficulty, budget, boxRow, stack, seed, solution, cpVars, rndVars>>
    /\ UNCHANGED app

\* a retry loop that runs once more than maxAttempts
moreAttemptsOffByOne(a) == a <= maxAttempts

\* the condition of `for (let attempt = 0; attempt < maxAttempts; attempt++)`
moreAttempts(a) == a < maxAttempts

\* head of the retry loop: zero the grid, or throw after maxAttempts
StartAttempt ==
    /\ pc = "attempt"
    /\ IF moreAttempts(attempt)
       THEN /\ grid' = ZeroGrid(size)
            /\ boxRow' = 0
            /\ budget' = IF replay = "off" THEN GenDraws(size) ELSE budget
            /\ seed' = NoGrid
            /\ pc' = "seed"
            /\ UNCHANGED genOutcome
       ELSE /\ genOutcome' = "failed"
            /\ pc' = "gen_done"
            /\ UNCHANGED <<grid, boxRow, budget, seed>>
    /\ UNCHANGED <<size, difficulty, digitsCache, attempt, stack, solution, cpVars, rndVars>>
    /\ UNCHANGED app

\* one iteration of fillDiagonalBoxes' outer loop (the inner loop fills only
\* boxCol = boxRow); after the last one solveSudoku is called
FillDiagonalBox ==
    /\ pc = "seed"
    /\ LET boxDims == getBoxDimensions(size)
           boxesPerRow == size \div boxDims.cols
       IN  IF boxRow < boxesPerRow
           THEN \E ds \in ShuffleDraws(size - 1) :
                    LET digits == getDigits(digitsCache, size)
                        numbers == shuffleArray(digits, ds)
                    IN  /\ grid' = fillBox(grid, boxRow * boxDims.rows, boxRow * boxDims.cols,
                                           boxDims, numbers)
                        /\ digitsCache' =
                               [digitsCache EXCEPT ![size] = arrayAfterShuffle(digits, numbers)]
                        /\ budget' = budget - NonZero(ds)
                        /\ tape' = TapeAfter(InOrder(ds))
                        /\ boxRow' = boxRow + 1
                        /\ UNCHANGED <<pc, seed>>
           ELSE /\ pc' = "solve"
                /\ seed' = grid
                /\ UNCHANGED <<grid, budget, boxRow, digitsCache, tape>>
    /\ UNCHANGED <<size, difficulty, attempt, stack, genOutcome, solution, cpVars, replay, first>>
    /\ UNCHANGED app

\* entry of solveSudoku: findBestCell; no cell -> return true, else the frame
\* of this call starts its loop over the shuffled candidates
SolveEnter ==
    /\ pc = "solve"
    /\ LET cell == findBestCell(grid, size, getDigits(digitsCache, size))
       IN  IF cell = NoCell
           THEN /\ pc' = "ret_true"
                /\ UNCHANGED <<stack, budget, tape>>
           ELSE \E ds \in ShuffleDraws(Len(cell.candidates) - 1) :
                    /\ stack' = Append(stack, [row |-> cell.row, col |-> cell.col,
                                               candidates |-> shuffleArray(cell.candidates, ds),
                                               idx |-> 1])
                    /\ budget' = budget - NonZero(ds)
                    /\ tape' = TapeAfter(InOrder(ds))
                    /\ pc' = "loop"
    /\ UNCHANGED <<size, difficulty, digitsCache, grid, attempt, boxRow, genOutcome, seed, solution, cpVars, replay, first>>
    /\ UNCHANGED app

\* the loop recurses without writing the candidate into the grid
SolveLoopNoPlace ==
    /\ pc = "loop"
    /\ LET f == stack[Len(stack)]
       IN  IF f.idx <= Len(f.candidates)
           THEN /\ pc' = "solve"
                /\ UNCHANGED stack
           ELSE /\ stack' = SubSeq(stack, 1, Len(stack) - 1)
                /\ pc' = "ret_false"
    /\ UNCHANGED <<size, difficulty, budget, digitsCache, grid, attempt, boxRow, genOutcome, seed, solution, cpVars, rndVars>>
    /\ UNCHANGED app

\* the for loop of the innermost frame: place the next candidate and recurse,
\* or fall out of the loop and return false
SolveLoop ==
    /\ pc = "loop"
    /\ LET f == stack[Len(stack)]
       IN  IF f.idx <= Len(f.candidates)
           THEN /\ grid' = [grid EXCEPT ![f.row][f.col] = f.candidates[f.idx]]
                /\ pc' = "solve"
                /\ UNCHANGED stack
           ELSE /\ stack' = SubSeq(stack, 1, Len(stack) - 1)
                /\ pc' = "ret_false"
                /\ UNCHANGED grid
    /\ UNCHANGED <<size, difficulty, budget, digitsCache, attempt, boxRow, genOutcome, seed, solution, cpVars, rndVars>>
    /\ UNCHANGED app

\* the caller goes on to its next candidate without resetting the cell
SolveReturnFalseNoUndo ==
    /\ pc = "ret_false"
    /\ IF stack = << >>
       THEN /\ attempt' = attempt + 1
            /\ pc' = "attempt"
            /\ UNCHANGED stack
       ELSE /\ stack' = [stack EXCEPT ![Len(stack)].idx = @ + 1]
            /\ pc' = "loop"
            /\ UNCHANGED attempt
    /\ UNCHANGED <<size, difficulty, budget, digitsCache, grid, boxRow, genOutcome, seed, solution, cpVars, rndVars>>
    /\ UNCHANGED app

\* a call returned false: the caller resets the cell and goes on with the next
\* candidate; with no caller left the attempt has failed
SolveReturnFalse ==
    /\ pc = "ret_false"
    /\ IF stack = << >>
       THEN /\ attempt' = attempt + 1
            /\ pc' = "attempt"
            /\ UNCHANGED <<grid, stack>>
       ELSE LET f == stack[Len(stack)]
            IN  /\ grid' = [grid EXCEPT ![f.row][f.col] = 0]
                /\ stack' = [stack EXCEPT ![Len(stack)].idx = f.idx + 1]
                /\ pc' = "loop"
                /\ UNCHANGED attempt
    /\ UNCHANGED <<size, difficulty, budget, digitsCache, boxRow, genOutcome, seed, solution, cpVars, rndVars>>
    /\ UNCHANGED app

\* a call returned true: every caller returns true in turn, and generateSudoku
\* returns the grid
SolveReturnTrue ==
    /\ pc = "ret_true"
    /\ IF stack = << >>
       THEN /\ genOutcome' = "grid"
            /\ solution' = grid
            /\ pc' = "gen_done"
            /\ UNCHANGED stack
       ELSE /\ stack' = SubSeq(stack, 1, Len(stack) - 1)
            /\ UNCHANGED <<genOutcome, solution, pc>>
    /\ UNCHANGED <<size, difficulty, budget, digitsCache, grid, attempt, boxRow, seed, cpVars, rndVars>>
    /\ UNCHANGED app

----------------------------------------------------------------------------
(* createPuzzle: helpers *)

getBoxIndex(row, col, n) ==
    LET boxDims == getBoxDimensions(n)
        boxesPerRow == n \div boxDims.cols
    IN  (row \div boxDims.rows) * boxesPerRow + (col \div boxDims.cols)

getSpatialRegion(row, col, n) ==
    LET regionSize == (n + 2) \div 3      \* Math.ceil(size / 3)
    IN  (row \div regionSize) * 3 + (col \div regionSize)

\* the percentages table, in percent
percentages(d) ==
    CASE d = "easy" -> 65
      [] d = "medium" -> 40
      [] d = "hard" -> 34
      [] d = "extremely hard" -> 28

\* the target taken as the filled fraction instead of the removed one
targetCellsToRemoveFilled(n, d) == (n * n * percentages(d)) \div 100

\* Math.floor(totalCells * (1 - percentages[difficulty])); for the sizes and the
\* four fractions of the table the product is never within 0.3 of an integer,
\* so the integer quotient is the value the floating-point expression yields
targetCellsToRemove(n, d) == (n * n * (100 - percentages(d))) \div 100

\* Map.get(k) || 0 and Map.set(k, v)
MapGet(m, k) == IF k \in DOMAIN m THEN m[k] ELSE 0
MapSet(m, k, v) == IF k \in DOMAIN m THEN [m EXCEPT ![k] = v] ELSE m @@ (k :> v)

NoRemovalState == [puzzle |-> NoGrid]
NoQuota == [cellsToRemoveNow |-> 0]

\* a copy that swaps the indices
NewRemovalStateTransposed(g, n) ==
    LET boxesPerRow == n \div getBoxDimensions(n).cols
    IN  [puzzle |-> [r \in Idx(n) |-> [c \in Idx(n) |-> g[c][r]]],
         removedCells |-> {},
         rowRemovalCounts |-> [i \in Idx(n) |-> 0],
         colRemovalCounts |-> [i \in Idx(n) |-> 0],
         boxRemovalCounts |-> [i \in Idx(boxesPerRow * boxesPerRow) |-> 0],
         spatialRegionCounts |-> [i \in Idx(9) |-> 0],
         rowsWithRemovals |-> {},
         colsWithRemovals |-> {},
         boxesWithRemovals |-> {}]

\* the state createPuzzle builds before step 1; puzzle is a copy of the grid
NewRemovalState(g, n) ==
    LET boxesPerRow == n \div getBoxDimensions(n).cols
    IN  [puzzle |-> g,
         removedCells |-> {},
         rowRemovalCounts |-> [i \in Idx(n) |-> 0],
         colRemovalCounts |-> [i \in Idx(n) |-> 0],
         boxRemovalCounts |-> [i \in Idx(boxesPerRow * boxesPerRow) |-> 0],
         spatialRegionCounts |-> [i \in Idx(9) |-> 0],
         rowsWithRemovals |-> {},
         colsWithRemovals |-> {},
         boxesWithRemovals |-> {}]

\* removeCell without the removedCells.has(key) guard
removeCellNoGuard(st, row, col, n) ==
    LET boxIdx == getBoxIndex(row, col, n)
        spatialRegion == getSpatialRegion(row, col, n)
    IN  [st EXCEPT
           !.puzzle[row][col] = 0,
           !.removedCells = @ \cup {<<row, col>>},
           !.rowRemovalCounts[row] = @ + 1,
           !.colRemovalCounts[col] = @ + 1,
           !.boxRemovalCounts = MapSet(@, boxIdx, MapGet(@, boxIdx) + 1),
           !.spatialRegionCounts =
               MapSet(@, spatialRegion, MapGet(@, spatialRegion) + 1),
           !.rowsWithRemovals = @ \cup {row},
           !.colsWithRemovals = @ \cup {col},
           !.boxesWithRemovals = @ \cup {boxIdx}]

\* removeCell that updates the bookkeeping but leaves the puzzle cell as it is
removeCellNoWrite(st, row, col, n) ==
    IF <<row, col>> \in st.removedCells THEN st
    ELSE LET boxIdx == getBoxIndex(row, col, n)
             spatialRegion == getSpatialRegion(row, col, n)
         IN  [st EXCEPT
                !.removedCells = @ \cup {<<row, col>>},
                !.rowRemovalCounts[row] = @ + 1,
                !.colRemovalCounts[col] = @ + 1,
                !.boxRemovalCounts = MapSet(@, boxIdx, MapGet(@, boxIdx) + 1),
                !.spatialRegionCounts =
                    MapSet(@, spatialRegion, MapGet(@, spatialRegion) + 1),
                !.rowsWithRemovals = @ \cup {row},
                !.colsWithRemovals = @ \cup {col},
                !.boxesWithRemovals = @ \cup {boxIdx}]

\* removeCell that counts the spatial region under the box index
removeCellRegionByBox(st, row, col, n) ==
    IF <<row, col>> \in st.removedCells THEN st
    ELSE LET boxIdx == getBoxIndex(row, col, n)
         IN  [st EXCEPT
                !.puzzle[row][col] = 0,
                !.removedCells = @ \cup {<<row, col>>},
                !.rowRemovalCounts[row] = @ + 1,
                !.colRemovalCounts[col] = @ + 1,
                !.boxRemovalCounts = MapSet(@, boxIdx, MapGet(@, boxIdx) + 1),
                !.spatialRegionCounts = MapSet(@, boxIdx, MapGet(@, boxIdx) + 1),
                !.rowsWithRemovals = @ \cup {row},
                !.colsWithRemovals = @ \cup {col},
                !.boxesWithRemovals = @ \cup {boxIdx}]

\* removeCell; the key `${row},${col}` is the pair <<row, col>>
removeCell(st, row, col, n) ==
    IF <<row, col>> \in st.removedCells THEN st
    ELSE LET boxIdx == getBoxIndex(row, col, n)
             spatialRegion == getSpatialRegion(row, col, n)
         IN  [st EXCEPT
                !.puzzle[row][col] = 0,
                !.removedCells = @ \cup {<<row, col>>},
                !.rowRemovalCounts[row] = @ + 1,
                !.colRemovalCounts[col] = @ + 1,
                !.boxRemovalCounts = MapSet(@, boxIdx, MapGet(@, boxIdx) + 1),
                !.spatialRegionCounts =
                    MapSet(@, spatialRegion, MapGet(@, spatialRegion) + 1),
                !.rowsWithRemovals = @ \cup {row},
                !.colsWithRemovals = @ \cup {col},
                !.boxesWithRemovals = @ \cup {boxIdx}]

\* puzzle = [...grid]: the rows are shared, a write to puzzle shows in grid
callerGridSharedRows(g, st) == st.puzzle

\* grid.map(row => [...row]): the rows of puzzle are fresh arrays, so the grid
\* the caller passed is the same after a write to puzzle[row][col]
callerGrid(g, st) == g

\* getCellPriority, doubled so that the weight 1.5 stays an integer
getCellPriority(st, row, col, n) ==
    2 * (st.rowRemovalCounts[row] + st.colRemovalCounts[col]
         + MapGet(st.boxRemovalCounts, getBoxIndex(row, col, n)))
    + 3 * MapGet(st.spatialRegionCounts, getSpatialRegion(row, col, n))

\* Array.prototype.sort is stable; the comparators of the source compare the
\* tuple components at the positions `keys`, in that order
RECURSIVE Less(_, _, _)
Less(a, b, keys) ==
    IF keys = << >> THEN FALSE
    ELSE IF a[Head(keys)] # b[Head(keys)] THEN a[Head(keys)] < b[Head(keys)]
    ELSE Less(a, b, Tail(keys))

InsertSorted(sorted, x, keys) ==
    LET greater == {i \in 1 .. Len(sorted) : Less(x, sorted[i], keys)}
        at == IF greater = {} THEN Len(sorted) + 1
              ELSE CHOOSE i \in greater : \A j \in greater : i <= j
    IN  SubSeq(sorted, 1, at - 1) \o <<x>> \o SubSeq(sorted, at, Len(sorted))

RECURSIVE SortPrefix(_, _, _)
SortPrefix(s, keys, k) ==
    IF k = 0 THEN << >> ELSE InsertSorted(SortPrefix(s, keys, k - 1), s[k], keys)

StableSort(s, keys) == SortPrefix(s, keys, Len(s))

\* columnOrder.sort((a, b) => colRemovalCounts[a] - colRemovalCounts[b])
SortColumnOrder(columnOrder, colRemovalCounts) ==
    LET keyed == [i \in 1 .. Len(columnOrder) |->
                     <<columnOrder[i], colRemovalCounts[columnOrder[i]]>>]
        sorted == StableSort(keyed, <<2>>)
    IN  [i \in 1 .. Len(sorted) |-> sorted[i][1]]

\* the cells of a unit in the order the source scans them
RowCells(row, n) == [k \in 1 .. n |-> <<row, k - 1>>]
ColCells(col, n) == [k \in 1 .. n |-> <<k - 1, col>>]
BoxCells(boxIdx, n) ==
    LET boxDims == getBoxDimensions(n)
        boxesPerRow == n \div boxDims.cols
        startRow == (boxIdx \div boxesPerRow) * boxDims.rows
        startCol == (boxIdx % boxesPerRow) * boxDims.cols
    IN  [k \in 1 .. (boxDims.rows * boxDims.cols) |->
            <<startRow + ((k - 1) \div boxDims.cols), startCol + ((k - 1) % boxDims.cols)>>]
AllCells(n) == [k \in 1 .. (n * n) |-> <<(k - 1) \div n, (k - 1) % n>>]

\* the not-yet-removed cells with their priorities, left in scan order
AvailableUnsorted(st, cells, n) ==
    LET free == SelectSeq(cells, LAMBDA c : c \notin st.removedCells)
    IN  [k \in 1 .. Len(free) |->
            <<free[k][1], free[k][2], getCellPriority(st, free[k][1], free[k][2], n)>>]

\* the not-yet-removed cells of `cells` as <<row, col, priority>>, sorted by priority
Available(st, cells, n) ==
    LET free == SelectSeq(cells, LAMBDA c : c \notin st.removedCells)
    IN  StableSort([k \in 1 .. Len(free) |->
                       <<free[k][1], free[k][2], getCellPriority(st, free[k][1], free[k][2], n)>>],
                   <<3>>)

Min(a, b) == IF a < b THEN a ELSE b
Max(a, b) == IF a > b THEN a ELSE b

PickDraws(n) ==
    IF app # NoApp THEN TickPicks
    ELSE CASE n = 4 -> PickDraws4 [] n = 6 -> PickDraws6 [] OTHER -> PickDraws9

\* one coverage visit: a unit without removal loses one of its (at most) three
\* lowest-priority available cells
CoverUnit(covered, cells) ==
    LET available == Available(rs, cells, size)
    IN  IF covered \/ available = << >>
        THEN UNCHANGED <<rs, budget, grid, tape>>
        ELSE \E d \in PickDraw(Min(3, Len(available))) :
                 /\ rs' = removeCell(rs, available[d + 1][1], available[d + 1][2], size)
                 /\ grid' = callerGrid(grid, rs')
                 /\ budget' = IF d = 0 THEN budget ELSE budget - 1
                 /\ tape' = TapeAfter(<<d>>)

----------------------------------------------------------------------------
(* createPuzzle *)

\* createPuzzle(grid, size, difficulty): assertValidSize, then the copy of the
\* grid and the fresh counters
CreatePuzzle ==
    /\ pc = "cp_call"
    /\ IF ~isValidSize(size)
       THEN /\ cpOutcome' = "unsupported"
            /\ pc' = "cp_done"
            /\ UNCHANGED <<rs, unit, budget>>
       ELSE /\ rs' = NewRemovalState(grid, size)
            /\ unit' = 0
            /\ budget' = IF replay = "off" THEN PickDraws(size) ELSE budget
            /\ pc' = "rows"
            /\ UNCHANGED cpOutcome
    /\ UNCHANGED <<size, difficulty, digitsCache, genVars, quota, rndVars>>
    /\ UNCHANGED app

\* step 1 with a row index that wraps around instead of ending the loop
CoverRowWrap ==
    /\ pc = "rows"
    /\ CoverUnit(unit \in rs.rowsWithRemovals, RowCells(unit, size))
    /\ unit' = (unit + 1) % size
    /\ UNCHANGED pc
    /\ UNCHANGED <<size, difficulty, digitsCache, genLocals, quota, cpOutcome, replay, first>>
    /\ UNCHANGED app

\* step 1, one row
CoverRow ==
    /\ pc = "rows"
    /\ CoverUnit(unit \in rs.rowsWithRemovals, RowCells(unit, size))
    /\ IF unit + 1 < size
       THEN unit' = unit + 1 /\ UNCHANGED pc
       ELSE unit' = 0 /\ pc' = "cols"
    /\ UNCHANGED <<size, difficulty, digitsCache, genLocals, quota, cpOutcome, replay, first>>
    /\ UNCHANGED app

\* step 2, one column
CoverColumn ==
    /\ pc = "cols"
    /\ CoverUnit(unit \in rs.colsWithRemovals, ColCells(unit, size))
    /\ IF unit + 1 < size
       THEN unit' = unit + 1 /\ UNCHANGED pc
       ELSE unit' = 0 /\ pc' = "boxes"
    /\ UNCHANGED <<size, difficulty, digitsCache, genLocals, quota, cpOutcome, replay, first>>
    /\ UNCHANGED app

\* step 3, one box index below boxesPerRow * boxesPerRow
CoverBox ==
    /\ pc = "boxes"
    /\ CoverUnit(unit \in rs.boxesWithRemovals, BoxCells(unit, size))
    /\ LET boxesPerRow == size \div getBoxDimensions(size).cols
       IN  IF unit + 1 < boxesPerRow * boxesPerRow
           THEN unit' = unit + 1 /\ UNCHANGED pc
           ELSE unit' = 0 /\ pc' = "quota"
    /\ UNCHANGED <<size, difficulty, digitsCache, genLocals, quota, cpOutcome, replay, first>>
    /\ UNCHANGED app

\* a pool that holds only the topmost free cell of each column
PositionsByColumnTopOnly(st, n) ==
    LET colsWithFree == {j \in Idx(n) : \E i \in Idx(n) : <<i, j>> \notin st.removedCells}
    IN  [j \in colsWithFree |->
            LET free == SelectSeq(ColCells(j, n), LAMBDA c : c \notin st.removedCells)
            IN  <<<<free[1][1], j, getCellPriority(st, free[1][1], j, n),
                    getSpatialRegion(free[1][1], j, n)>>>>]

\* positionsByColumn: per column with a free cell, its free cells as
\* <<i, j, priority, spatialRegion>> sorted by priority, then region
PositionsByColumn(st, n) ==
    LET colsWithFree == {j \in Idx(n) : \E i \in Idx(n) : <<i, j>> \notin st.removedCells}
    IN  [j \in colsWithFree |->
            LET free == SelectSeq(ColCells(j, n), LAMBDA c : c \notin st.removedCells)
            IN  StableSort([k \in 1 .. Len(free) |->
                               <<free[k][1], j, getCellPriority(st, free[k][1], j, n),
                                 getSpatialRegion(free[k][1], j, n)>>],
                           <<3, 4>>)]

RECURSIVE SumLengths(_, _)
SumLengths(m, keys) ==
    IF keys = {} THEN 0
    ELSE LET k == CHOOSE x \in keys : TRUE
         IN  Len(m[k]) + SumLengths(m, keys \ {k})

\* step 4 up to the while loop; with nothing left to remove the puzzle is returned
QuotaInit ==
    /\ pc = "quota"
    /\ LET currentRemoved == Cardinality(rs.removedCells)
           additionalToRemove ==
               Max(0, targetCellsToRemove(size, difficulty) - currentRemoved)
           positionsByColumn == PositionsByColumn(rs, size)
       IN  IF additionalToRemove > 0
           THEN /\ quota' = [positionsByColumn |-> positionsByColumn,
                             cellsToRemoveNow |->
                                 Min(additionalToRemove,
                                     SumLengths(positionsByColumn, DOMAIN positionsByColumn)),
                             columnOrder |->
                                 SortColumnOrder([k \in 1 .. size |-> k - 1],
                                                 rs.colRemovalCounts),
                             removedCount |-> 0,
                             foundAny |-> FALSE,
                             orderPos |-> 1,
                             fallbackRemoved |-> 0]
                /\ pc' = "while"
                /\ UNCHANGED cpOutcome
           ELSE /\ cpOutcome' = "puzzle"
                /\ pc' = "cp_done"
                /\ UNCHANGED quota
    /\ UNCHANGED <<size, difficulty, budget, digitsCache, genVars, rs, unit, rndVars>>
    /\ UNCHANGED app

\* the while condition: a new pass over columnOrder, or the loop is left
WhileHead ==
    /\ pc = "while"
    /\ IF quota.removedCount < quota.cellsToRemoveNow
       THEN /\ quota' = [quota EXCEPT !.foundAny = FALSE, !.orderPos = 1]
            /\ pc' = "for"
       ELSE /\ pc' = "after_while"
            /\ UNCHANGED quota
    /\ UNCHANGED <<size, difficulty, budget, digitsCache, genVars, rs, unit, cpOutcome, rndVars>>
    /\ UNCHANGED app

\* the scan of the first five positions of a column for the best one
RECURSIVE bestScan(_, _, _, _)
bestScan(columnPositions, counts, idx, bestIndex) ==
    IF idx > Min(Len(columnPositions), 5) THEN bestIndex
    ELSE LET priority == columnPositions[idx][3]
             spatialCount == MapGet(counts, columnPositions[idx][4])
             bestPriority == columnPositions[bestIndex][3]
             bestSpatialRegion == columnPositions[bestIndex][4]
         IN  IF \/ priority < bestPriority
                \/ /\ priority = bestPriority
                   /\ spatialCount < MapGet(counts, bestSpatialRegion)
             THEN bestScan(columnPositions, counts, idx + 1, idx)
             ELSE bestScan(columnPositions, counts, idx + 1, bestIndex)

\* a splice that takes the following position along
RemoveAtAndNext(s, i) == SubSeq(s, 1, i - 1) \o SubSeq(s, i + 2, Len(s))

RemoveAt(s, i) == SubSeq(s, 1, i - 1) \o SubSeq(s, i + 1, Len(s))

\* one iteration of `for (const col of columnOrder)` (the iterator reads the
\* array, re-sorted in place, at its next index), or the end of the pass
ForColumn ==
    /\ pc = "for"
    /\ IF quota.orderPos > Len(quota.columnOrder)
       THEN /\ pc' = IF quota.foundAny THEN "while" ELSE "after_while"
            /\ UNCHANGED <<quota, rs, grid>>
       ELSE LET col == quota.columnOrder[quota.orderPos]
                hasPositions == /\ col \in DOMAIN quota.positionsByColumn
                                /\ quota.positionsByColumn[col] # << >>
            IN  IF quota.removedCount >= quota.cellsToRemoveNow
                THEN /\ pc' = IF quota.foundAny THEN "while" ELSE "after_while"
                     /\ UNCHANGED <<quota, rs, grid>>
                ELSE IF ~hasPositions
                THEN /\ quota' = [quota EXCEPT !.orderPos = @ + 1]
                     /\ UNCHANGED <<pc, rs, grid>>
                ELSE LET columnPositions == quota.positionsByColumn[col]
                         bestIndex == bestScan(columnPositions, rs.spatialRegionCounts, 1, 1)
                         best == columnPositions[bestIndex]
                         after == removeCell(rs, best[1], best[2], size)
                     IN  /\ rs' = after
                         /\ grid' = callerGrid(grid, after)
                         /\ quota' = [quota EXCEPT
                                !.positionsByColumn[col] = RemoveAt(columnPositions, bestIndex),
                                !.removedCount = @ + 1,
                                !.foundAny = TRUE,
                                !.columnOrder = SortColumnOrder(@, after.colRemovalCounts),
                                !.orderPos = @ + 1]
                         /\ UNCHANGED pc
    /\ UNCHANGED <<size, difficulty, budget, digitsCache, genLocals, unit, cpOutcome, rndVars>>
    /\ UNCHANGED app

RECURSIVE removeFirst(_, _, _, _)
removeFirst(st, positions, k, n) ==
    IF k = 0 THEN st
    ELSE removeCell(removeFirst(st, positions, k - 1, n), positions[k][1], positions[k][2], n)

\* after the while loop: the flat ranking pass when the loop fell short, then
\* the puzzle is returned
AfterWhile ==
    /\ pc = "after_while"
    /\ IF quota.removedCount < quota.cellsToRemoveNow
       THEN LET remainingPositions == Available(rs, AllCells(size), size)
                stillNeed == quota.cellsToRemoveNow - quota.removedCount
                count == Min(stillNeed, Len(remainingPositions))
            IN  /\ rs' = removeFirst(rs, remainingPositions, count, size)
                /\ grid' = callerGrid(grid, rs')
                /\ quota' = [quota EXCEPT !.fallbackRemoved = count]
       ELSE UNCHANGED <<rs, quota, grid>>
    /\ cpOutcome' = "puzzle"
    /\ pc' = "cp_done"
    /\ UNCHANGED <<size, difficulty, budget, digitsCache, genLocals, unit, rndVars>>
    /\ UNCHANGED app

----------------------------------------------------------------------------
(* Specification of generateSudoku alone *)

InitGen ==
    /\ size \in InputSizes
    /\ difficulty = "easy"
    /\ pc = "idle"
    /\ budget = 0
    /\ digitsCache = [n \in {} |-> << >>]
    /\ grid = NoGrid
    /\ attempt = 0
    /\ boxRow = 0
    /\ stack = << >>
    /\ genOutcome = "none"
    /\ seed = NoGrid
    /\ solution = NoGrid
    /\ rs = NoRemovalState
    /\ unit = 0
    /\ quota = NoQuota
    /\ cpOutcome = "none"
    /\ replay = "off"
    /\ tape = << >>
    /\ first = NoFirst
    /\ app = NoApp

NextGen ==
    \/ GenerateSudoku
    \/ StartAttempt
    \/ FillDiagonalBox
    \/ SolveEnter
    \/ SolveLoop
    \/ SolveReturnFalse
    \/ SolveReturnTrue

SpecGen == InitGen /\ [][NextGen]_vars

\* generateSudoku is synchronous code on one thread: a step that can be taken
\* is taken.  SolveEnter is enabled exactly when pc = "solve" and every
\* SolveEnter step leaves "solve", so its weak fairness is written as the
\* recurrence of pc # "solve"
SpecGenFair ==
    /\ SpecGen
    /\ WF_vars(GenerateSudoku \/ StartAttempt \/ FillDiagonalBox \/ SolveLoop
                   \/ SolveReturnFalse \/ SolveReturnTrue)
    /\ []<>(pc # "solve")

----------------------------------------------------------------------------
(* Specification of createPuzzle alone, called on a complete solution *)

\* a complete valid grid for a supported size (the shifted-rows pattern), a
\* Latin square otherwise; createPuzzle never reads the digits of its input
InputSolution(n) ==
    LET boxDims == getBoxDimensions(n)
    IN  [r \in Idx(n) |-> [c \in Idx(n) |->
            IF boxDims # UnsupportedSize
            THEN (((r % boxDims.rows) * boxDims.cols + (r \div boxDims.rows) + c) % n) + 1
            ELSE ((r + c) % n) + 1]]

InitPuzzle ==
    /\ size \in InputSizes
    /\ difficulty \in Difficulties
    /\ pc = "cp_call"
    /\ budget = 0
    /\ digitsCache = [n \in {} |-> << >>]
    /\ grid = InputSolution(size)
    /\ attempt = 0
    /\ boxRow = 0
    /\ stack = << >>
    /\ genOutcome = "none"
    /\ seed = NoGrid
    /\ solution = grid
    /\ rs = NoRemovalState
    /\ unit = 0
    /\ quota = NoQuota
    /\ cpOutcome = "none"
    /\ replay = "off"
    /\ tape = << >>
    /\ first = NoFirst
    /\ app = NoApp

\* the caller asks for another puzzle of the same solution
CallCreatePuzzleAgain ==
    /\ pc = "cp_done"
    /\ cpOutcome = "puzzle"
    /\ pc' = "cp_call"
    /\ difficulty' \in Difficulties
    /\ rs' = NoRemovalState
    /\ quota' = NoQuota
    /\ cpOutcome' = "none"
    /\ budget' = 0
    /\ UNCHANGED <<size, digitsCache, genVars, unit, rndVars>>
    /\ UNCHANGED app

NextPuzzle ==
    \/ CallCreatePuzzleAgain
    \/ CreatePuzzle
    \/ CoverRow
    \/ CoverColumn
    \/ CoverBox
    \/ QuotaInit
    \/ WhileHead
    \/ ForColumn
    \/ AfterWhile

SpecPuzzle == InitPuzzle /\ [][NextPuzzle]_vars

----------------------------------------------------------------------------
\* createPuzzle is synchronous code on one thread: a step of the call that can
\* be taken is taken; the caller need not call again.  A step of the coverage
\* phases or of step 4 is enabled exactly when pc is at it, so the weak fairness
\* of these steps is written with that state predicate in the place of ENABLED
SpecPuzzleFair ==
    /\ SpecPuzzle
    /\ WF_vars(CreatePuzzle \/ WhileHead)
    /\ \/ []<>(pc \in {"cp_call", "while", "cp_done"})
       \/ []<><<CoverRow \/ CoverColumn \/ CoverBox \/ QuotaInit \/ ForColumn
                   \/ AfterWhile>>_vars

(* The caller of the two exported functions: generateSudoku(size), and       *)
(* createPuzzle on a complete grid, also after generateSudoku has thrown     *)

\* createPuzzle(anyGrid, size, anyLabel) after generateSudoku rejected the size
CallCreatePuzzleAfterThrow ==
    /\ pc = "gen_done"
    /\ genOutcome = "unsupported"
    /\ pc' = "cp_call"
    /\ grid' = InputSolution(size)
    /\ solution' = InputSolution(size)
    /\ difficulty' \in Difficulties
    /\ UNCHANGED <<size, budget, digitsCache, attempt, boxRow, stack, genOutcome, seed, cpVars, rndVars>>
    /\ UNCHANGED app

Init == InitGen \/ InitPuzzle

Next == NextGen \/ NextPuzzle \/ CallCreatePuzzleAfterThrow

Spec == Init /\ [][Next]_vars

----------------------------------------------------------------------------
(* Two runs of handleGenerate's pair generateSudoku(size), createPuzzle(     *)
(* solution, size, difficulty) in one process: the first records its draws,  *)
(* the second is fed the same draws; digitsCache lives across the runs       *)

InitReplay ==
    /\ size \in InputSizes
    /\ difficulty \in Difficulties
    /\ pc = "idle"
    /\ budget = ReplayDraws(size)
    /\ digitsCache = [n \in {} |-> << >>]
    /\ grid = NoGrid
    /\ attempt = 0
    /\ boxRow = 0
    /\ stack = << >>
    /\ genOutcome = "none"
    /\ seed = NoGrid
    /\ solution = NoGrid
    /\ rs = NoRemovalState
    /\ unit = 0
    /\ quota = NoQuota
    /\ cpOutcome = "none"
    /\ replay = "record"
    /\ tape = << >>
    /\ first = NoFirst
    /\ app = NoApp

\* const puzzle = createPuzzle(solution, size, difficulty) after generateSudoku returned
CallCreatePuzzle ==
    /\ pc = "gen_done"
    /\ genOutcome = "grid"
    /\ pc' = "cp_call"
    /\ UNCHANGED <<size, difficulty, budget, digitsCache, genVars, cpVars, rndVars>>
    /\ UNCHANGED app

\* handleGenerate has come to its end: createPuzzle returned or generateSudoku threw
RunDone == pc = "cp_done" \/ (pc = "gen_done" /\ genOutcome # "grid")

\* what one run hands to its caller
Result ==
    [genOutcome |-> genOutcome, solution |-> solution,
     cpOutcome |-> cpOutcome, puzzle |-> rs.puzzle]

\* the second run: same size and difficulty, the recorded draws, and whatever
\* the module kept from the first run
StartSecondRun ==
    /\ replay = "record"
    /\ RunDone
    /\ first' = Result
    /\ replay' = "play"
    /\ pc' = "idle"
    /\ budget' = 0
    /\ grid' = NoGrid
    /\ attempt' = 0
    /\ boxRow' = 0
    /\ stack' = << >>
    /\ genOutcome' = "none"
    /\ seed' = NoGrid
    /\ solution' = NoGrid
    /\ rs' = NoRemovalState
    /\ unit' = 0
    /\ quota' = NoQuota
    /\ cpOutcome' = "none"
    /\ UNCHANGED <<size, difficulty, digitsCache, tape>>
    /\ UNCHANGED app

NextReplay ==
    \/ GenerateSudoku
    \/ StartAttempt
    \/ FillDiagonalBox
    \/ SolveEnter
    \/ SolveLoop
    \/ SolveReturnFalse
    \/ SolveReturnTrue
    \/ CallCreatePuzzle
    \/ CreatePuzzle
    \/ CoverRow
    \/ CoverColumn
    \/ CoverBox
    \/ QuotaInit
    \/ WhileHead
    \/ ForColumn
    \/ AfterWhile
    \/ StartSecondRun

SpecReplay == InitReplay /\ [][NextReplay]_vars

----------------------------------------------------------------------------
(* The App component: handleGenerate sets isGenerating and defers the        *)
(* generation with setTimeout(.., 0); the callback runs generateSudoku,      *)
(* createPuzzle and generatePrintablePage in a try / catch / finally         *)

NoPage == [size |-> 0]

InitApp ==
    /\ size = 9                       \* useState<number>(9)
    /\ difficulty = "easy"            \* useState<Difficulty>('easy')
    /\ pc = "app_idle"
    /\ budget = 0
    /\ digitsCache = [n \in {} |-> << >>]
    /\ grid = NoGrid
    /\ attempt = 0
    /\ boxRow = 0
    /\ stack = << >>
    /\ genOutcome = "none"
    /\ seed = NoGrid
    /\ solution = NoGrid
    /\ rs = NoRemovalState
    /\ unit = 0
    /\ quota = NoQuota
    /\ cpOutcome = "none"
    /\ replay = "off"
    /\ tape = << >>
    /\ first = NoFirst
    /\ app = [isGenerating |-> FALSE,  \* useState<boolean>(false)
              timers |-> 0,            \* callbacks handed to setTimeout and not run yet
              clicks |-> 0,
              page |-> NoPage]         \* the arguments generatePrintablePage was called with

\* handleGenerate, called by the Generate button (disabled={isGenerating}) with
\* the size and difficulty the user has selected: setIsGenerating(true) and
\* setTimeout(callback, 0); nothing else runs in this tick
HandleGenerate ==
    /\ pc = "app_idle"
    /\ ~app.isGenerating
    /\ app.clicks < MaxClicks
    /\ size' \in VALID_SIZES
    /\ difficulty' \in Difficulties
    /\ app' = [app EXCEPT !.isGenerating = TRUE, !.timers = @ + 1, !.clicks = @ + 1]
    /\ UNCHANGED <<pc, budget, digitsCache, genVars, cpVars, rndVars>>

\* a later tick: the timer callback starts, its try block calls generateSudoku(size)
TimerFires ==
    /\ pc = "app_idle"
    /\ app.timers > 0
    /\ app' = [app EXCEPT !.timers = @ - 1]
    /\ pc' = "idle"
    /\ UNCHANGED <<size, difficulty, budget, digitsCache, genVars, cpVars, rndVars>>

\* generatePrintablePage(puzzle, completeGrid, size, difficulty); the
\* collaborator returns or throws
GeneratePrintablePage ==
    /\ pc = "cp_done"
    /\ cpOutcome = "puzzle"
    /\ app' = [app EXCEPT !.page = [puzzle |-> rs.puzzle, completeGrid |-> grid,
                                    size |-> size, difficulty |-> difficulty]]
    /\ pc' \in {"page_done", "page_threw"}
    /\ UNCHANGED <<size, difficulty, budget, digitsCache, genVars, cpVars, rndVars>>

\* an error thrown in the try block
Thrown ==
    \/ pc = "gen_done" /\ genOutcome # "grid"
    \/ pc = "cp_done" /\ cpOutcome # "puzzle"
    \/ pc = "page_threw"

\* catch (error): console.error and alert
Catch ==
    /\ Thrown
    /\ pc' = "caught"
    /\ UNCHANGED <<size, difficulty, budget, digitsCache, genVars, cpVars, rndVars, app>>

\* the callback's locals are gone when it has returned
CallbackReturns ==
    /\ pc' = "app_idle"
    /\ budget' = 0
    /\ grid' = NoGrid
    /\ attempt' = 0
    /\ boxRow' = 0
    /\ stack' = << >>
    /\ genOutcome' = "none"
    /\ seed' = NoGrid
    /\ solution' = NoGrid
    /\ rs' = NoRemovalState
    /\ unit' = 0
    /\ quota' = NoQuota
    /\ cpOutcome' = "none"
    /\ UNCHANGED <<size, difficulty, digitsCache, rndVars>>

\* a handler that resets the flag at the end of the try block only
FinallyAfterTryOnly ==
    /\ pc \in {"page_done", "caught"}
    /\ app' = [app EXCEPT !.isGenerating = (pc = "caught" /\ @), !.page = NoPage]
    /\ CallbackReturns

\* finally: setIsGenerating(false), after the try block or after the catch block
Finally ==
    /\ pc \in {"page_done", "caught"}
    /\ app' = [app EXCEPT !.isGenerating = FALSE, !.page = NoPage]
    /\ CallbackReturns

\* the steps of the timer callback
CallbackStep ==
    \/ GenerateSudoku
    \/ StartAttempt
    \/ FillDiagonalBox
    \/ SolveEnter
    \/ SolveLoop
    \/ SolveReturnFalse
    \/ SolveReturnTrue
    \/ CallCreatePuzzle
    \/ CreatePuzzle
    \/ CoverRow
    \/ CoverColumn
    \/ CoverBox
    \/ QuotaInit
    \/ WhileHead
    \/ ForColumn
    \/ AfterWhile
    \/ GeneratePrintablePage
    \/ Catch
    \/ Finally

NextApp ==
    \/ HandleGenerate
    \/ TimerFires
    \/ CallbackStep

SpecApp == InitApp /\ [][NextApp]_vars

\* a timer that is due fires, and the callback, synchronous code on one
\* thread, runs on.  A step of generateSudoku or of createPuzzle is enabled
\* exactly while pc is inside the call, so the weak fairness of these steps is
\* written with that state predicate in the place of ENABLED
SpecAppFair ==
    /\ SpecApp
    /\ WF_vars(TimerFires)
    /\ WF_vars(CallCreatePuzzle \/ GeneratePrintablePage \/ Catch \/ Finally)
    /\ \/ []<>(pc \in {"app_idle", "gen_done", "cp_done", "page_done", "page_threw", "caught"})
       \/ []<><<GenerateSudoku \/ StartAttempt \/ FillDiagonalBox \/ SolveEnter
                   \/ SolveLoop \/ SolveReturnFalse \/ SolveReturnTrue
                   \/ CreatePuzzle \/ CoverRow \/ CoverColumn \/ CoverBox
                   \/ QuotaInit \/ WhileHead \/ ForColumn \/ AfterWhile>>_vars

----------------------------------------------------------------------------
(* Properties *)

\* the boxes of an n x n grid: boxRows x boxCols rectangles tiling it
Boxes(n) ==
    LET boxDims == getBoxDimensions(n)
    IN  {{<<r, c>> \in Idx(n) \X Idx(n) :
             r \div boxDims.rows = br /\ c \div boxDims.cols = bc} :
         <<br, bc>> \in Idx(n \div boxDims.rows) \X Idx(n \div boxDims.cols)}
Rows(n) == {{<<r, c>> : c \in Idx(n)} : r \in Idx(n)}
Columns(n) == {{<<r, c>> : r \in Idx(n)} : c \in Idx(n)}
Units(n) == Rows(n) \cup Columns(n) \cup Boxes(n)

IsComplete(g, n) ==
    \A u \in Units(n) : {g[cell[1]][cell[2]] : cell \in u} = 1 .. n

ZeroCells(g, n) == {cell \in Idx(n) \X Idx(n) : g[cell[1]][cell[2]] = 0}

InCreatePuzzle == pc \in {"rows", "cols", "boxes", "quota", "while", "for", "after_while"}

\* C1: a grid returned by generateSudoku has no zero cell, and every row, every
\* column and every boxRows x boxCols box holds each digit 1..N exactly once
C1_ReturnedGridValid ==
    genOutcome = "grid" => IsComplete(grid, size)

C1_Witness == pc = "gen_done" /\ genOutcome = "grid" /\ size = 6

\* C2: in the puzzle createPuzzle returns, every row, every column and every
\* box contains at least one zero cell
C2_EveryUnitHasZero ==
    cpOutcome = "puzzle" => \A u \in Units(size) : u \cap ZeroCells(rs.puzzle, size) # {}

C2_Witness == cpOutcome = "puzzle" /\ size = 6 /\ difficulty = "easy"

\* C3 as stated: the returned puzzle has exactly floor(N*N*(1-f)) zero cells
C3_ExactTarget ==
    cpOutcome = "puzzle" =>
        Cardinality(ZeroCells(rs.puzzle, size)) = targetCellsToRemove(size, difficulty)

\* what the code does: the returned puzzle never has fewer than
\* floor(N*N*(1-f)) zero cells; it has exactly that many except for N = 4 with
\* "easy", where the coverage steps can remove 6 or 7 cells, more than the
\* target of 5
C3_TargetExceptSmallEasy ==
    cpOutcome = "puzzle" =>
        LET zeros == Cardinality(ZeroCells(rs.puzzle, size))
            target == targetCellsToRemove(size, difficulty)
        IN  IF size = 4 /\ difficulty = "easy"
            THEN zeros \in 5 .. 7
            ELSE zeros = target

C3_Witness ==
    /\ cpOutcome = "puzzle" /\ size = 4 /\ difficulty = "easy"
    /\ Cardinality(ZeroCells(rs.puzzle, size)) = 7

\* C4: during createPuzzle and in its result every puzzle cell is 0 or the
\* digit of the solution at that position
C4_PuzzleWithinSolution ==
    (InCreatePuzzle \/ cpOutcome = "puzzle") =>
        \A r \in Idx(size) : \A c \in Idx(size) : rs.puzzle[r][c] \in {0, solution[r][c]}

C4_Witness ==
    /\ pc = "for"
    /\ \E r \in Idx(size), c \in Idx(size) : rs.puzzle[r][c] = 0
    /\ \E r \in Idx(size), c \in Idx(size) : rs.puzzle[r][c] = solution[r][c]

\* C5: createPuzzle leaves its input grid as it was, through every removal
\* and every further call on the same grid
C5_InputUnchanged ==
    (InCreatePuzzle \/ pc \in {"cp_call", "cp_done"}) => grid = solution

C5_Witness ==
    /\ pc = "cp_done" /\ cpOutcome = "puzzle"
    /\ ZeroCells(rs.puzzle, size) # {}
    /\ grid = solution

\* C6: for an unsupported size generateSudoku and createPuzzle end in the
\* unsupported-size error before any work: no grid is allocated or seeded, no
\* attempt is made, no digits are cached, no removal state is built
C6_UnsupportedFailsFast ==
    size \notin VALID_SIZES =>
        /\ pc \in {"idle", "gen_done", "cp_call", "cp_done"}
        /\ pc = "gen_done" => genOutcome = "unsupported" /\ grid = NoGrid
        /\ pc = "cp_done" => cpOutcome = "unsupported" /\ grid = solution
        /\ genOutcome \in {"none", "unsupported"}
        /\ cpOutcome \in {"none", "unsupported"}
        /\ attempt = 0 /\ boxRow = 0 /\ stack = << >> /\ seed = NoGrid
        /\ DOMAIN digitsCache = {}
        /\ rs = NoRemovalState /\ quota = NoQuota

C6_Witness ==
    /\ size = 5 /\ pc = "cp_done"
    /\ genOutcome = "unsupported" /\ cpOutcome = "unsupported"

\* C7: generateSudoku makes at most 5 attempts, returns the grid of the first
\* attempt whose search succeeds, and throws exactly when 5 attempts failed;
\* what it returns is a complete valid grid
C7_AtMostFiveAttempts ==
    /\ attempt <= 5
    /\ pc \in {"seed", "solve", "loop", "ret_false", "ret_true"} => attempt < 5
    /\ genOutcome = "failed" <=> (pc = "gen_done" /\ isValidSize(size) /\ attempt = 5)
    /\ genOutcome = "grid" =>
           /\ attempt < 5
           /\ IsComplete(grid, size)
           /\ \A r \in Idx(size), c \in Idx(size) : seed[r][c] \in {0, grid[r][c]}

C7_Witness == genOutcome = "failed" /\ attempt = 5

\* a completion of g exists: some digit fits the first empty cell at or after
\* cell k (row-major) and the rest can be completed
Fits(g, r, c, d, n) ==
    \A u \in Units(n) : <<r, c>> \in u => \A cell \in u : g[cell[1]][cell[2]] # d

RECURSIVE Completable(_, _, _)
Completable(g, n, k) ==
    IF k >= n * n THEN TRUE
    ELSE LET r == k \div n
             c == k % n
         IN  IF g[r][c] # 0 THEN Completable(g, n, k + 1)
             ELSE \E d \in 1 .. n :
                      Fits(g, r, c, d, n) /\ Completable([g EXCEPT ![r][c] = d], n, k + 1)

\* C8 as stated: generateSudoku never ends in the generation-failure error
C8_NeverFails == genOutcome # "failed"

\* what the code does: the generation-failure error is reachable (for N = 4);
\* an attempt fails only when the boxes it seeded admit no completion at all,
\* so the error means that all five seedings were of that kind
C8_FailsOnlyOnDeadSeed ==
    (pc = "ret_false" /\ stack = << >>) => ~Completable(seed, size, 0)

C8_Witness == pc = "ret_false" /\ stack = << >> /\ attempt = 4 /\ grid = seed

\* C9: removeCell on a coordinate it has already removed changes nothing: at
\* any point of createPuzzle a further call on a removed cell leaves puzzle,
\* counters, removed set and coverage sets as they are, and after the coverage
\* steps removing any cell twice gives what removing it once gives
C9_RemoveCellIdempotent ==
    InCreatePuzzle =>
        /\ \A cell \in rs.removedCells : removeCell(rs, cell[1], cell[2], size) = rs
        /\ pc = "quota" =>
               \A r \in Idx(size), c \in Idx(size) :
                   LET once == removeCell(rs, r, c, size)
                   IN  removeCell(once, r, c, size) = once

C9_Witness ==
    /\ pc = "for"
    /\ \E cell \in rs.removedCells : removeCell(rs, cell[1], cell[2], size) = rs
    /\ \E r \in Idx(size), c \in Idx(size) : removeCell(rs, r, c, size) # rs

\* C10: a second run of generateSudoku(N) and createPuzzle(solution, N,
\* difficulty) that is fed the draws of the first run, in the same order,
\* returns the same solution grid and the same puzzle grid (or fails the same
\* way) and consumes exactly the draws the first run made, whatever the first
\* run left behind in the module
C10_SameDrawsSameResult ==
    (replay = "play" /\ RunDone) => (Result = first /\ tape = << >>)

C10_Witness ==
    /\ replay = "play"
    /\ pc = "cp_done"
    /\ cpOutcome = "puzzle"
    /\ size = 6
    /\ budget < 0

\* the cells whose digits isValid(grid, row, col, _) has to avoid: the row, the
\* column, and the boxRows x boxCols box with origin
\* (row - row mod boxRows, col - col mod boxCols)
Peers(row, col, n) ==
    LET boxDims == getBoxDimensions(n)
        originRow == row - (row % boxDims.rows)
        originCol == col - (col % boxDims.cols)
    IN  {<<row, j>> : j \in Idx(n)} \cup {<<i, col>> : i \in Idx(n)}
        \cup {<<originRow + i, originCol + j>> :
                  <<i, j>> \in Idx(boxDims.rows) \X Idx(boxDims.cols)}

\* C11: at every call of findBestCell in the search, isValid(grid, row, col,
\* digit) is true exactly when digit is in no cell of the row, of the column
\* and of the box of (row, col), for every cell and every digit, and the call
\* leaves the grid as it was
C11_IsValidExact ==
    [][pc = "solve" =>
           /\ grid' = grid
           /\ \A row \in Idx(size), col \in Idx(size), digit \in 1 .. size :
                  isValid(grid, row, col, digit, size) <=>
                      \A cell \in Peers(row, col, size) : grid[cell[1]][cell[2]] # digit]_vars

\* a search state where a digit is absent from a cell's row and column and
\* present in its box, so that the box scan alone makes isValid false
C11_Witness ==
    /\ pc = "loop"
    /\ size = 6
    /\ \E row \in Idx(size), col \in Idx(size), digit \in 1 .. size :
           /\ isValidNoBox(grid, row, col, digit, size)
           /\ ~isValid(grid, row, col, digit, size)

\* C12: getBoxDimensions(N) is (3,3) for 9, (2,3) for 6, (2,2) for 4, so that
\* rows * cols = N for each supported N, and the unsupported-size error for
\* every other N
C12_BoxDimensions ==
    LET boxDims == getBoxDimensions(size)
    IN  /\ size = 9 => boxDims = [rows |-> 3, cols |-> 3]
        /\ size = 6 => boxDims = [rows |-> 2, cols |-> 3]
        /\ size = 4 => boxDims = [rows |-> 2, cols |-> 2]
        /\ size \in VALID_SIZES => boxDims.rows * boxDims.cols = size
        /\ size \notin VALID_SIZES => boxDims = UnsupportedSize

\* the second diagonal box of a 6 x 6 grid has been placed by its dimensions
C12_Witness ==
    /\ size = 6
    /\ pc = "seed"
    /\ boxRow = 2
    /\ grid[getBoxDimensions(size).rows][getBoxDimensions(size).cols] # 0

\* number of legal candidates of a cell
candidateCount(g, row, col, n) == Len(getCandidates(g, row, col, n, NewDigits(n)))

\* C13 as stated: at every call of the search on a grid with an empty cell the
\* cell findBestCell chooses has the fewest candidates among all empty cells,
\* and findBestCell returns no cell only when the grid has no empty cell
C13_FewestCandidatesChosen ==
    pc = "solve" =>
        LET cell == findBestCell(grid, size, getDigits(digitsCache, size))
            empty == ZeroCells(grid, size)
        IN  /\ cell = NoCell <=> empty = {}
            /\ cell # NoCell =>
                   \A e \in empty :
                       Len(cell.candidates) <= candidateCount(grid, e[1], e[2], size)

\* C14 as stated: a call of the search entered on a grid in which some empty
\* cell has no candidate returns failure at once: the cell findBestCell hands
\* to the loop has no candidate, so no digit is placed and no call is nested
C14_DeadCellFailsAtOnce ==
    (pc = "solve" /\ \E e \in ZeroCells(grid, size) :
                         candidateCount(grid, e[1], e[2], size) = 0) =>
        findBestCell(grid, size, getDigits(digitsCache, size)).candidates = << >>

\* the grid at the entry of the innermost active call: the seeded grid with
\* the current candidate of every enclosing frame in its cell
RECURSIVE gridAtEntry(_, _, _)
gridAtEntry(g, frames, k) ==
    IF k > Len(frames) THEN g
    ELSE gridAtEntry([g EXCEPT ![frames[k].row][frames[k].col] =
                                   frames[k].candidates[frames[k].idx]],
                     frames, k + 1)

\* C15: a call of solveSudoku is entered on the seeded grid plus the digits
\* its enclosing calls have placed, and when it returns failure the grid is
\* cell for cell that grid again; after a failed attempt the grid is the
\* seeded grid, whose non-zero cells are exactly the cells of the diagonal boxes
C15_BacktrackingRestoresGrid ==
    /\ pc = "solve" => grid = gridAtEntry(seed, stack, 1)
    /\ pc = "ret_false" =>
           /\ grid = gridAtEntry(seed, stack, 1)
           /\ stack = << >> =>
                  /\ grid = seed
                  /\ LET boxDims == getBoxDimensions(size)
                     IN  \A r \in Idx(size), c \in Idx(size) :
                             grid[r][c] # 0 <=>
                                 /\ r \div boxDims.rows = c \div boxDims.cols
                                 /\ c \div boxDims.cols < size \div boxDims.cols

\* a nested call has returned failure while three enclosing calls still have
\* their digits in the grid
C15_Witness ==
    /\ pc = "ret_false"
    /\ Len(stack) = 3
    /\ grid # seed

\* the box at box position (br, bc)
BoxAt(br, bc, n) ==
    LET boxDims == getBoxDimensions(n)
    IN  {<<r, c>> \in Idx(n) \X Idx(n) :
             r \div boxDims.rows = br /\ c \div boxDims.cols = bc}

\* the boxes at the positions (k, k) the grid has
DiagonalBoxes(n) ==
    LET boxDims == getBoxDimensions(n)
    IN  {BoxAt(k, k, n) : k \in Idx(Min(n \div boxDims.rows, n \div boxDims.cols))}

\* no non-zero digit twice in a row, a column or a box
NoRepeat(g, n) ==
    \A u \in Units(n) : \A a \in u, b \in u :
        (a # b /\ g[a[1]][a[2]] # 0) => g[a[1]][a[2]] # g[b[1]][b[2]]

\* C16: in every attempt, right after fillDiagonalBoxes, each box at a position
\* (k, k) holds every digit 1..N once, every other cell is 0, no two of these
\* boxes share a row or a column, and so no digit is repeated in any row,
\* column or box
C16_SeedingFillsDiagonalBoxes ==
    (pc = "solve" /\ stack = << >>) =>
        /\ \A box \in DiagonalBoxes(size) : {grid[cell[1]][cell[2]] : cell \in box} = 1 .. size
        /\ \A cell \in (Idx(size) \X Idx(size)) \ UNION DiagonalBoxes(size) :
               grid[cell[1]][cell[2]] = 0
        /\ \A b1 \in DiagonalBoxes(size), b2 \in DiagonalBoxes(size) :
               b1 # b2 => \A a \in b1, b \in b2 : a[1] # b[1] /\ a[2] # b[2]
        /\ NoRepeat(grid, size)

\* a retry has just seeded its grid
C16_Witness ==
    /\ pc = "solve"
    /\ stack = << >>
    /\ attempt >= 1
    /\ grid = seed

\* C17: in every state of generateSudoku that has a grid - seeding, search,
\* backtracking, return - every cell is in 0..N and no non-zero digit occurs
\* twice in a row, a column or a box
C17_PartialGridConsistent ==
    grid # NoGrid =>
        /\ \A r \in Idx(size), c \in Idx(size) : grid[r][c] \in 0 .. size
        /\ NoRepeat(grid, size)

\* backtracking: a cell has just been reset inside nested calls
C17_Witness ==
    /\ pc = "loop"
    /\ Len(stack) >= 2
    /\ stack[Len(stack)].idx > Len(stack[Len(stack)].candidates)
    /\ grid[stack[Len(stack)].row][stack[Len(stack)].col] = 0
    /\ Len(stack[Len(stack)].candidates) > 0

\* C18: the search terminates on every seeded grid: the outermost call of an
\* attempt returns; it returns true only with no zero cell left, a call
\* entered on a grid without zero cell returns true at once, and a call that
\* returns false leaves a zero cell
C18_SearchTerminates ==
    /\ [](pc = "ret_true" => ZeroCells(grid, size) = {})
    /\ [](pc = "ret_false" => ZeroCells(grid, size) # {})
    /\ [][(pc = "solve" /\ ZeroCells(grid, size) = {}) => pc' = "ret_true"]_vars
    /\ (pc = "solve" /\ stack = << >>) ~> (pc \in {"ret_true", "ret_false"} /\ stack = << >>)

\* the outermost call has returned true on a 9 x 9 grid
C18_Witness ==
    /\ pc = "ret_true"
    /\ stack = << >>
    /\ size = 9
    /\ ZeroCells(seed, size) # {}

\* the number of solveSudoku calls that are active: the frames that hold a
\* cell, and the call that has been entered and has not chosen its cell yet
activeCalls == Len(stack) + (IF pc = "solve" THEN 1 ELSE 0)

\* C19: the nesting depth of solveSudoku never exceeds N*N: every frame
\* holds a different cell that the seeding left empty, so the active calls are
\* at most the cells left empty by the seeding plus one
C19_DepthBounded ==
    pc \in {"solve", "loop", "ret_true", "ret_false"} =>
        /\ activeCalls <= size * size
        /\ activeCalls <= Cardinality(ZeroCells(seed, size)) + 1
        /\ \A i \in 1 .. Len(stack) :
               /\ seed[stack[i].row][stack[i].col] = 0
               /\ \A j \in 1 .. Len(stack) :
                      i # j => <<stack[i].row, stack[i].col>> # <<stack[j].row, stack[j].col>>

\* the deepest call: every cell the seeding left empty has its frame and the
\* call that finds no empty cell is entered on top of them
C19_Witness ==
    /\ pc = "solve"
    /\ size = 9
    /\ activeCalls = Cardinality(ZeroCells(seed, size)) + 1

\* the boxes that hold a removed cell
boxesCovered(st, n) == {box \in Boxes(n) : box \cap ZeroCells(st.puzzle, n) # {}}

\* C20 as stated: when step 3 is over and step 4 has not begun, every box of
\* the grid holds at least one removed cell
C20_BoxesCoveredAfterStep3 ==
    pc = "quota" => boxesCovered(rs, size) = Boxes(size)

\* the columns that still hold a position of the quota phase's pool
columnsWithPositions ==
    {j \in DOMAIN quota.positionsByColumn : quota.positionsByColumn[j] # << >>}

\* C21 as stated: whenever the round-robin loop removes a cell, no column that
\* still has a position in the pool has a strictly smaller removal count than
\* the column of the removed cell
C21_LeastRemovedColumn ==
    [][(pc = "for" /\ rs'.removedCells # rs.removedCells) =>
           \A cell \in rs'.removedCells \ rs.removedCells :
               \A j \in columnsWithPositions :
                   rs.colRemovalCounts[cell[2]] <= rs.colRemovalCounts[j]]_vars

\* the first five positions of a column of the quota phase's pool
firstFive(col) ==
    LET columnPositions == quota.positionsByColumn[col]
    IN  {columnPositions[i] : i \in 1..Min(Len(columnPositions), 5)}

\* C22 as stated: the cell the round-robin loop removes from the chosen column
\* has, among the first five positions of that column, the lowest priority
\* computed on the counters as they stand at the pick, ties broken by the lower
\* current removal count of the spatial region
C22_LowestCurrentPriority ==
    [][(pc = "for" /\ rs'.removedCells # rs.removedCells) =>
           \A cell \in rs'.removedCells \ rs.removedCells :
               \A p \in firstFive(cell[2]) :
                   LET chosen == getCellPriority(rs, cell[1], cell[2], size)
                       other == getCellPriority(rs, p[1], p[2], size)
                       chosenRegion == MapGet(rs.spatialRegionCounts,
                                              getSpatialRegion(cell[1], cell[2], size))
                       otherRegion == MapGet(rs.spatialRegionCounts, p[4])
                   IN  \/ chosen < other
                       \/ chosen = other /\ chosenRegion <= otherRegion]_vars

\* the cells of the unit a coverage phase is visiting
visitedUnit ==
    LET cells == CASE pc = "rows" -> RowCells(unit, size)
                   [] pc = "cols" -> ColCells(unit, size)
                   [] OTHER -> BoxCells(unit, size)
    IN  {cells[i] : i \in DOMAIN cells}

\* C23: a coverage phase removes a cell only for a unit that holds no removed
\* cell when it is visited; the removed cell belongs to that unit and at most
\* two of the unit's not-yet-removed cells have a strictly lower priority
C23_CoverageRemoval ==
    [][(pc \in {"rows", "cols", "boxes"} /\ rs'.removedCells # rs.removedCells) =>
           \A cell \in rs'.removedCells \ rs.removedCells :
               /\ visitedUnit \cap rs.removedCells = {}
               /\ cell \in visitedUnit
               /\ Cardinality({c \in visitedUnit :
                                  getCellPriority(rs, c[1], c[2], size)
                                      < getCellPriority(rs, cell[1], cell[2], size)}) <= 2
               /\ rs'.removedCells = rs.removedCells \cup {cell}]_vars

\* the column phase has removed a cell for a column the row phase left whole,
\* and has passed over a column that already held a removed cell
C23_Witness ==
    /\ pc = "boxes"
    /\ Cardinality(rs.removedCells) > size
    /\ Cardinality(rs.removedCells) < 2 * size

\* the removed cells a predicate on <<row, col>> selects
removedIn(Sel(_)) == Cardinality({cell \in rs.removedCells : Sel(cell)})

\* C24: during createPuzzle every row, column, box and region counter equals
\* the number of removed cells of its unit, the removed cells are exactly the
\* zero cells of the puzzle and are at most N*N, and every effective removal
\* adds one cell and raises exactly one counter of each kind, by one
C24_CountersMatchRemovals ==
    /\ [](InCreatePuzzle =>
           /\ \A i \in Idx(size) :
                  /\ rs.rowRemovalCounts[i] = removedIn(LAMBDA cell : cell[1] = i)
                  /\ rs.colRemovalCounts[i] = removedIn(LAMBDA cell : cell[2] = i)
                  /\ MapGet(rs.boxRemovalCounts, i)
                         = removedIn(LAMBDA cell : getBoxIndex(cell[1], cell[2], size) = i)
           /\ \A i \in Idx(9) :
                  MapGet(rs.spatialRegionCounts, i)
                      = removedIn(LAMBDA cell : getSpatialRegion(cell[1], cell[2], size) = i)
           /\ DOMAIN rs.boxRemovalCounts \subseteq Idx(size)
           /\ DOMAIN rs.spatialRegionCounts \subseteq Idx(9)
           /\ rs.removedCells = ZeroCells(rs.puzzle, size)
           /\ Cardinality(rs.removedCells) <= size * size)
    /\ [][(InCreatePuzzle /\ InCreatePuzzle' /\ rs' # rs) =>
              LET raised(old, new) ==
                      {k \in DOMAIN new : MapGet(old, k) # new[k]}
                  byOne(old, new) ==
                      /\ Cardinality(raised(old, new)) = 1
                      /\ \A k \in raised(old, new) : new[k] = MapGet(old, k) + 1
              IN  /\ Cardinality(rs'.removedCells \ rs.removedCells) = 1
                  /\ rs.removedCells \subseteq rs'.removedCells
                  /\ byOne(rs.rowRemovalCounts, rs'.rowRemovalCounts)
                  /\ byOne(rs.colRemovalCounts, rs'.colRemovalCounts)
                  /\ byOne(rs.boxRemovalCounts, rs'.boxRemovalCounts)
                  /\ byOne(rs.spatialRegionCounts, rs'.spatialRegionCounts)]_vars

\* the quota phase is removing cells of a 6x6 puzzle and a cell of the bottom
\* box row, whose counter the map did not hold at first, is among the removed
C24_Witness ==
    /\ pc = "for" /\ size = 6
    /\ quota.removedCount > 0
    /\ \E cell \in rs.removedCells : getBoxIndex(cell[1], cell[2], size) >= 4

\* C26: the round-robin loop is left with removedCount = cellsToRemoveNow; no
\* pass ends without a removal while cells are still to be removed, so the
\* `if (!foundAny) break` exit is not taken with quota outstanding; and the
\* ranking pass after the loop removes nothing
C26_QuotaMet ==
    /\ pc = "after_while" => quota.removedCount = quota.cellsToRemoveNow
    /\ (pc = "for" /\ quota.orderPos > Len(quota.columnOrder) /\ ~quota.foundAny) =>
           quota.removedCount >= quota.cellsToRemoveNow
    /\ (pc = "cp_done" /\ cpOutcome = "puzzle" /\ quota # NoQuota) =>
           /\ quota.fallbackRemoved = 0
           /\ quota.removedCount = quota.cellsToRemoveNow

\* the loop has been left after more than one pass over the columns
C26_Witness ==
    /\ pc = "after_while"
    /\ quota.removedCount = quota.cellsToRemoveNow
    /\ quota.cellsToRemoveNow > size

\* the cells the coverage phases had removed when step 4 began: the removed
\* cells less those of the round-robin loop and of the ranking pass
removedByCoverage ==
    IF quota = NoQuota THEN Cardinality(rs.removedCells)
    ELSE Cardinality(rs.removedCells) - quota.removedCount - quota.fallbackRemoved

\* C27: the returned puzzle has max(target, k) zero cells, where target is
\* floor(N*N*(1-f)) and k the number of cells the coverage phases removed; with
\* k >= target step 4 removes nothing; the puzzle never has fewer than target
\* zero cells, and more only when the coverage phases alone exceeded target
C27_ZeroCount ==
    (pc = "cp_done" /\ cpOutcome = "puzzle") =>
        LET target == targetCellsToRemove(size, difficulty)
            k == removedByCoverage
            zeros == Cardinality(ZeroCells(rs.puzzle, size))
        IN  /\ zeros = Max(target, k)
            /\ k >= target => (quota = NoQuota /\ zeros = k)
            /\ zeros >= target
            /\ zeros > target => k > target

\* a puzzle is returned whose coverage phases alone went past the target, so
\* that step 4 removed nothing
C27_Witness ==
    /\ pc = "cp_done" /\ cpOutcome = "puzzle"
    /\ quota = NoQuota
    /\ Cardinality(ZeroCells(rs.puzzle, size)) > targetCellsToRemove(size, difficulty)

\* C25: createPuzzle terminates for every supported size, difficulty and pick
\* sequence: a call that has started returns; each coverage phase visits unit
\* indices below N only, one per step; a pass of the round-robin loop is
\* followed by another pass only after it removed a cell, and a pass that
\* removed none leaves the loop
C25_CreatePuzzleTerminates ==
    /\ (pc = "cp_call" /\ isValidSize(size)) ~> (pc = "cp_done" /\ cpOutcome = "puzzle")
    /\ [](pc \in {"rows", "cols", "boxes"} => unit < size)
    /\ [][(pc \in {"rows", "cols", "boxes"} /\ pc' = pc) => unit' = unit + 1]_vars
    /\ [][(pc = "while" /\ pc' = "for") => ~quota'.foundAny]_vars
    /\ [][(pc = "for" /\ pc' = "for") =>
              quota'.foundAny =
                  (quota.foundAny \/ quota'.removedCount = quota.removedCount + 1)]_vars
    /\ [][(pc = "for" /\ quota'.removedCount # quota.removedCount) =>
              /\ quota'.removedCount = quota.removedCount + 1
              /\ Cardinality(rs'.removedCells) = Cardinality(rs.removedCells) + 1]_vars
    /\ [][(pc = "for" /\ pc' # "for") =>
              pc' = IF quota.foundAny THEN "while" ELSE "after_while"]_vars

\* a second pass of the round-robin loop is under way on a 9x9 grid
C25_Witness ==
    /\ pc = "for" /\ size = 9
    /\ quota.removedCount > size
    /\ quota.removedCount < quota.cellsToRemoveNow

\* C28: an invocation of handleGenerate sets isGenerating in the same step and
\* starts nothing but a timer; generateSudoku starts only when a timer fires in
\* a later tick; isGenerating is eventually reset, whether generateSudoku
\* or createPuzzle returned or threw; generatePrintablePage is called only after
\* both returned, with the grid generateSudoku returned in this callback and
\* the puzzle createPuzzle made of it
C28_HandleGenerate ==
    /\ [][app'.clicks # app.clicks =>
              /\ app'.isGenerating
              /\ app'.timers = app.timers + 1
              /\ pc = "app_idle" /\ pc' = "app_idle"
              /\ grid' = NoGrid /\ rs' = NoRemovalState]_vars
    /\ [][(pc' = "idle" /\ pc # "idle") =>
              /\ pc = "app_idle"
              /\ app.isGenerating
              /\ app.timers > 0 /\ app'.timers = app.timers - 1]_vars
    /\ [](pc \notin {"app_idle"} => app.isGenerating)
    /\ app.isGenerating ~> ~app.isGenerating
    /\ [](app.page # NoPage =>
              /\ pc \in {"page_done", "page_threw", "caught"}
              /\ genOutcome = "grid" /\ cpOutcome = "puzzle"
              /\ app.page.completeGrid = solution
              /\ IsComplete(app.page.completeGrid, size)
              /\ app.page.puzzle = rs.puzzle
              /\ \A r \in Idx(size), c \in Idx(size) :
                     app.page.puzzle[r][c] \in {0, app.page.completeGrid[r][c]}
              /\ app.page.size = size /\ app.page.difficulty = difficulty)

\* handleGenerate has been invoked a second time after the flag was reset, and
\* in its callback generateSudoku threw and the catch block has run
C28_Witness ==
    /\ pc = "caught"
    /\ genOutcome = "failed"
    /\ app.isGenerating
    /\ app.clicks = 2

=============================================================================
